---- MODULE Spec2Model ----
(***************************************************************************)
(* Model of js/script.js: the Set abstraction (lines 51-339), the          *)
(* knowledge base of zone and diagnosis Sets (lines 340-373) and the       *)
(* checkbox click handler that resolves a localization and ranks the       *)
(* differential diagnoses (lines 391-618).                                 *)
(*                                                                         *)
(* A Set object is modelled by the sequence of its keys in the order       *)
(* `for (key in this.data)` enumerates them.  Every element stored by the  *)
(* program is a non-numeric string, for which the property key is the      *)
(* element itself (_makeKey is the identity) and the enumeration order is  *)
(* the insertion order; the stored value equals the key.                   *)
(***************************************************************************)
EXTENDS Integers, Sequences, FiniteSets, TLC

VARIABLES
    checked,      \* ids of the checkboxes that are checked
    pc,           \* position of the click handler: "idle" between clicks
    zoneQueue,    \* checked zone boxes .each() has still to visit (line 399)
    symQueue,     \* checked symptom boxes .each() has still to visit (line 440)
    candQueue,    \* finalDx.keys() entries the scan has still to visit (line 490)
    finalSet,     \* var finalSet (line 392)
    finalDx,      \* var finalDx (line 394)
    noset,        \* var noset (line 435)
    rank,         \* the scan variables of lines 476-486, by their names
    aLocal,       \* content of #a-local
    aDdx,         \* content of #a-ddx
    area1,        \* content of #area1
    area2,        \* content of #area2
    kb,           \* the global knowledge-base Sets, by variable name
    s,            \* a Set object under test (receiver of the method calls)
    t,            \* the argument handed to the method
    ret           \* what the last method call returned

vars == << checked, pc, zoneQueue, symQueue, candQueue, finalSet, finalDx,
           noset, rank, aLocal, aDdx, area1, area2, kb, s, t, ret >>

handlerVars == << checked, pc, zoneQueue, symQueue, candQueue, finalSet,
                  finalDx, noset, rank, aLocal, aDdx, area1, area2, kb >>

setVars == << s, t, ret >>

(***************************************************************************)
(* Bounds.                                                                 *)
(***************************************************************************)
\* how many of the zone checkboxes the user operates
NumZoneBoxes == 3
\* how many of the symptom checkboxes the user operates
NumSymptomBoxes == 2
\* number of distinct elements offered to the Set object under test
NumElems == 3
\* longest array handed to a Set method
MaxArrayLen == 2
\* largest candidate set whose every enumeration order is scanned
MaxReordered == 3

Range(q) == { q[i] : i \in DOMAIN q }

Min(a, b) == IF a < b THEN a ELSE b

\* every order in which the members of S can be enumerated
Orderings(S) ==
    { q \in [1..Cardinality(S) -> S] :
        \A i, j \in 1..Cardinality(S) : i # j => q[i] # q[j] }

(***************************************************************************)
(* Argument forms accepted by the constructor, add() and the binary        *)
(* operations: a single key, an array of keys, or another Set.             *)
(***************************************************************************)
KeyArg(k) == [kind |-> "key", key |-> k, items |-> << >>]
ArrayArg(q) == [kind |-> "array", key |-> "", items |-> q]
SetArg(d) == [kind |-> "set", key |-> "", items |-> d]

(***************************************************************************)
(* Set.prototype                                                           *)
(***************************************************************************)
has(this, key) == \E i \in DOMAIN this : this[i] = key

\* this.data[key] = val: an existing property keeps its place
_add(this, key) == IF has(this, key) THEN this ELSE Append(this, key)

RECURSIVE _addEach(_, _)
_addEach(this, q) ==
    IF q = << >> THEN this ELSE _addEach(_add(this, Head(q)), Tail(q))

\* add with one argument; the receiver after the call (add returns this)
add(this, arg) ==
    IF arg.kind = "array" THEN _addEach(this, arg.items)
    ELSE IF arg.kind = "set" THEN _addEach(this, arg.items)
    ELSE _add(this, arg.key)

RECURSIVE addArgs(_, _)
\* add with an argument list
addArgs(this, args) ==
    IF args = << >> THEN this ELSE addArgs(add(this, Head(args)), Tail(args))

\* new Set(arg, ...)
NewSet(args) == addArgs(<< >>, args)

_removeItem(this, key) == SelectSeq(this, LAMBDA k : k # key)

RECURSIVE _removeEach(_, _)
_removeEach(this, q) ==
    IF q = << >> THEN this ELSE _removeEach(_removeItem(this, Head(q)), Tail(q))

\* remove with one argument; the receiver after the call
remove(this, arg) ==
    IF arg.kind = "array" THEN _removeEach(this, arg.items)
    ELSE IF arg.kind = "set" THEN this   \* no property is named by a Set
    ELSE _removeItem(this, arg.key)

makeNew(args) == NewSet(args)

\* the Set the binary operations work on: the argument itself when it is a Set
makeSet(args) == IF args.kind = "set" THEN args.items ELSE makeNew(<< args >>)

isEmpty(this) == ~ \E i \in DOMAIN this : has(this, this[i])

RECURSIVE eachReturn(_, _)
\* fn gives the callback's return value ("true", "false" or "undefined") by key
eachReturn(this, fn) ==
    IF this = << >> THEN TRUE
    ELSE IF fn[Head(this)] = "false" THEN FALSE
    ELSE eachReturn(Tail(this), fn)

keys(this) == this

clear(this) == << >>

\* union, intersection and difference give the returned Set (ret), the
\* receiver as the call leaves it (self) and the argument Set as the call
\* leaves it (other)
union(this, otherSet) ==
    LET o == makeSet(otherSet)
        newSet == makeNew(<< SetArg(this) >>)
    IN  [ret |-> add(newSet, SetArg(o)), self |-> this, other |-> o]

intersectionInPlace(this, otherSet) ==
    LET o == makeSet(otherSet)
        kept == SelectSeq(this, LAMBDA k : has(o, k))
    IN  [ret |-> kept, self |-> kept, other |-> o]

intersectionAsDifference(this, otherSet) ==
    LET o == makeSet(otherSet)
    IN  [ret |-> SelectSeq(this, LAMBDA k : ~ has(o, k)),
         self |-> this, other |-> o]

intersection(this, otherSet) ==
    LET o == makeSet(otherSet)
        newSet == _addEach(makeNew(<< >>), SelectSeq(this, LAMBDA k : has(o, k)))
    IN  [ret |-> newSet, self |-> this, other |-> o]

difference(this, otherSet) ==
    LET o == makeSet(otherSet)
        newSet == _addEach(makeNew(<< >>), SelectSeq(this, LAMBDA k : ~ has(o, k)))
    IN  [ret |-> newSet, self |-> this, other |-> o]

isSubset(this, otherSet) ==
    LET o == makeSet(otherSet)
    IN  eachReturn(this, [k \in Range(this) |->
                            IF ~ has(o, k) THEN "false" ELSE "undefined"])

isSupersetOneWay(this, otherSet) == isSubset(this, otherSet)

isSuperset(this, otherSet) ==
    LET o == makeSet(otherSet)
    IN  eachReturn(o, [k \in Range(o) |->
                            IF ~ has(this, k) THEN "false" ELSE "undefined"])

equals(this, otherSet) ==
    LET o == makeSet(otherSet)
    IN  isSubset(this, SetArg(o)) /\ isSuperset(this, SetArg(o))

\* a callback argument: results gives what the callback returns ("true",
\* "false" or "undefined") for each key of the receiver
FnArg(f) == [kind |-> "fn", key |-> "", items |-> << >>, results |-> f]

\* the new Set of the keys for which the callback returns exactly true
filter(this, fn) ==
    _addEach(makeNew(<< >>), SelectSeq(this, LAMBDA k : fn[k] = "true"))

\* found is set, and the iteration stopped, at the first key for which the
\* callback returns exactly true
some(this, fn) ==
    ~ eachReturn(this, [k \in Range(this) |->
                          IF fn[k] = "true" THEN "false" ELSE "undefined"])

every(this, fn) == eachReturn(this, fn)

(***************************************************************************)
(* The knowledge base, lines 340-373.                                      *)
(***************************************************************************)
KeyArgs(q) == [i \in DOMAIN q |-> KeyArg(q[i])]

KnowledgeBase ==
    [ all |->
          NewSet(<< ArrayArg(<< "R MR", "L MR", "R SR", "L SR", "R IR",
              "L IR", "R LR", "L LR", "R SO", "L SO", "R IO", "L IO",
              "R MLF", "L MLF" >>) >>),
      horizontal_LZ |->
          NewSet(<< ArrayArg(<< "R MR", "R LR", "L MR", "L LR", "L MLF",
              "R MLF" >>) >>),
      diagonal_LZ |->
          NewSet(<< ArrayArg(<< "R IO", "L IO", "R SR", "L SR", "R IR",
              "L IR" >>) >>),
      vertical_LZ |->
          NewSet(<< ArrayArg(<< "L IO", "R IO", "L SO", "R SO", "L IR",
              "R IR", "L SR", "R SR" >>) >>),
      leftLG_LZ |->
          NewSet(<< ArrayArg(<< "L LR", "R MR", "R IO", "R SO", "L SR",
              "L IR", "R MLF" >>) >>),
      rightLG_LZ |->
          NewSet(<< ArrayArg(<< "R LR", "L MR", "L IO", "L SO", "R SR",
              "R IR", "L MLF" >>) >>),
      lefthyper_LZ |->
          NewSet(<< ArrayArg(<< "L SO", "L IR", "R SR", "R IO",
              "L MLF" >>) >>),
      righthyper_LZ |->
          NewSet(<< ArrayArg(<< "R SO", "R IR", "L SR", "L IO",
              "R MLF" >>) >>),
      nohyper_LZ |->
          NewSet(<< ArrayArg(<< "L LR", "R LR", "L MR", "R MR", "L MLF",
              "R MLF" >>) >>),
      lefttilt_LZ |->
          NewSet(<< ArrayArg(<< "L SR", "L SO", "R IR", "R IO" >>) >>),
      righttilt_LZ |->
          NewSet(<< ArrayArg(<< "R SR", "R SO", "L IR", "L IO" >>) >>),
      rightlarger_LZ |->
          NewSet(<< ArrayArg(<< "R parasympathetic", "L sympathetic" >>) >>),
      leftlarger_LZ |->
          NewSet(<< ArrayArg(<< "L parasympathetic", "R sympathetic" >>) >>),
      dark_LZ |->
          NewSet(<< ArrayArg(<< "L sympathetic", "R sympathetic" >>) >>),
      light_LZ |->
          NewSet(<< ArrayArg(<< "R parasympathetic",
              "L parasympathetic" >>) >>),
      ddx_list |->
          NewSet(KeyArgs(<< "R INO", "L INO", "R CN III Palsy",
              "L CN III Palsy", "R CN IV Palsy", "L CN IV Palsy",
              "R CN VI Palsy", "L CN VI Palsy", "Intracranial Aneurysm",
              "Cavernous Sinus", "Horner",
              "Midbrain at the Level of the Superior Cerebellar Peduncle",
              "Dorsal Pons", "Base of the Midbrain", "Increased ICP",
              "Tegmentum of the Midbrain" >>)),
      RINO |->
          NewSet(<< ArrayArg(<< "R MLF", "nystagmus",
              "impaired_adduction" >>) >>),
      LINO |->
          NewSet(KeyArgs(<< "L MLF", "nystagmus", "impaired_adduction" >>)),
      RCNIIIPalsy |->
          NewSet(KeyArgs(<< "ptosis", "R MR", "R IO", "R SR", "R IR",
              "R parasympathetic", "eye_pain", "convergence_impaired",
              "impaired_adduction" >>)),
      LCNIIIPalsy |->
          NewSet(KeyArgs(<< "ptosis", "L MR", "L IO", "L SR", "L IR",
              "L parasympathetic", "eye_pain", "convergence_impaired",
              "impaired_adduction" >>)),
      RCNIVPalsy |->
          NewSet(KeyArgs(<< "eye_pain", "R SO" >>)),
      LCNIVPalsy |->
          NewSet(KeyArgs(<< "eye_pain", "L SO" >>)),
      RCNVIPalsy |->
          NewSet(KeyArgs(<< "eye_pain", "R LR" >>)),
      LCNVIPalsy |->
          NewSet(KeyArgs(<< "eye_pain", "L LR" >>)),
      IncreasedICP |->
          NewSet(KeyArgs(<< "R LR", "L LR", "headache", "L parasympathetic",
              "R parasympathetic" >>)),
      IntracranialAneurysm |->
          NewSet(<< ArrayArg(<< "ptosis", "R MR", "R IO", "R SR", "R IR",
              "L MR", "L IO", "L SR", "L IR", "R parasympathetic",
              "convergence_impaired", "impaired_adduction",
              "headache" >>) >>),
      CavernousSinus |->
          NewSet(<< ArrayArg(<< "R sympathetic", "L sympathetic", "R MR",
              "R IO", "R SR", "R IR", "L MR", "L IO", "L SR", "L IR", "L SO",
              "R SO", "L LR", "R LR", "facial_numbness", "ptosis",
              "eye_pain" >>) >>),
      MidbrainattheLeveloftheSuperiorCerebellarPeduncle |->
          NewSet(KeyArgs(<< "ptosis", "R MR", "R IO", "R SR", "R IR",
              "R parasympathetic", "ipsilateral_ataxia", "nystagmus",
              "R MLF", "L MLF", "L MR", "L IO", "L SR", "L IR",
              "L parasympathetic", "impaired_adduction" >>)),
      BaseoftheMidbrain |->
          NewSet(KeyArgs(<< "R MR", "R IO", "R SR", "R IR", "L MR", "L IO",
              "L SR", "L IR", "contralateral_hemiparesis" >>)),
      Horner |->
          NewSet(<< ArrayArg(<< "R sympathetic", "L sympathetic",
              "ptosis" >>) >>),
      DorsalPons |->
          NewSet(<< ArrayArg(<< "L LR", "R LR", "L MLF", "R MLF",
              "ipsilateral_hemiface_weakness", "impaired_adduction" >>) >>),
      TegmentumoftheMidbrain |->
          NewSet(KeyArgs(<< "R MR", "R IO", "R SR", "R IR", "L MR", "L IO",
              "L SR", "L IR", "R parasympathetic", "ipsilateral_ataxia",
              "contralateral_ataxia", "contralateral_hemiparesis",
              "nystagmus" >>)) ]

\* eval(id + "_LZ"), line 400-401
ZoneVar(id) == id \o "_LZ"

\* curDxSpace.replace(/\s+/g, ""), lines 452 and 493
NoSpace(name) ==
    CASE name = "R INO" -> "RINO"
      [] name = "L INO" -> "LINO"
      [] name = "R CN III Palsy" -> "RCNIIIPalsy"
      [] name = "L CN III Palsy" -> "LCNIIIPalsy"
      [] name = "R CN IV Palsy" -> "RCNIVPalsy"
      [] name = "L CN IV Palsy" -> "LCNIVPalsy"
      [] name = "R CN VI Palsy" -> "RCNVIPalsy"
      [] name = "L CN VI Palsy" -> "LCNVIPalsy"
      [] name = "Intracranial Aneurysm" -> "IntracranialAneurysm"
      [] name = "Cavernous Sinus" -> "CavernousSinus"
      [] name = "Horner" -> "Horner"
      [] name = "Midbrain at the Level of the Superior Cerebellar Peduncle" ->
             "MidbrainattheLeveloftheSuperiorCerebellarPeduncle"
      [] name = "Dorsal Pons" -> "DorsalPons"
      [] name = "Base of the Midbrain" -> "BaseoftheMidbrain"
      [] name = "Increased ICP" -> "IncreasedICP"
      [] name = "Tegmentum of the Midbrain" -> "TegmentumoftheMidbrain"

(***************************************************************************)
(* The checkboxes.  A zone checkbox (class checkbox-input) carries the id  *)
(* that, with "_LZ" appended, names a zone Set; a symptom checkbox carries *)
(* the id of a finding that is no anatomical structure.                    *)
(***************************************************************************)
ZoneIds ==
    << "horizontal", "vertical", "leftLG", "dark", "light", "diagonal",
       "rightLG", "lefthyper", "righthyper", "nohyper", "lefttilt",
       "righttilt", "rightlarger", "leftlarger" >>

SymptomIds ==
    << "ptosis", "ipsilateral_ataxia", "nystagmus", "facial_numbness",
       "impaired_adduction", "eye_pain", "headache", "convergence_impaired",
       "contralateral_hemiparesis", "contralateral_ataxia",
       "ipsilateral_hemiface_weakness" >>

ZoneBoxes == { ZoneIds[i] : i \in 1..Min(NumZoneBoxes, Len(ZoneIds)) }

SymptomBoxes == { SymptomIds[i] : i \in 1..Min(NumSymptomBoxes, Len(SymptomIds)) }

Boxes == ZoneBoxes \cup SymptomBoxes

(***************************************************************************)
(* Content of an output region: the pieces of HTML in the order html() and *)
(* append() put them there.                                                *)
(***************************************************************************)
Text(str) == [tag |-> "text", str |-> str]
Li(str) == [tag |-> "li", str |-> str]
Strong(str) == [tag |-> "strong", str |-> str]

\* one <li> per key, appended in keys() order
ListItems(q) == [i \in DOMAIN q |-> Li(q[i])]

NoLocalizations == << Text("No localizations found!") >>
NoAdditional == << Text("No additional differentials") >>

(***************************************************************************)
(* The click handler, lines 391-618.                                       *)
(***************************************************************************)
\* line 397: $(":checkbox").is(":checked")
AnyChecked(chk) == chk # {}

SymptomCheckedAnyBox(chk) == chk # {}

\* line 436: $(":checkbox[class*=symptoms]").is(":checked")
SymptomChecked(chk) == chk \cap SymptomBoxes # {}

\* the scan variables before line 476 has run
RankUnset ==
    [ topSet |-> << >>, secondSet |-> << >>, topddxcount |-> 0,
      topddx |-> "", seconddx |-> "", seconddxcount |-> 0,
      secondMultipleSet |-> << >>, topMultipleSet |-> << >> ]

ZoneBodyNaiveReduce(fs, k, id) ==
    LET curSetName == ZoneVar(id)
        call == intersection(fs, SetArg(k[curSetName]))
    IN  [finalSet |-> call.ret, kb |-> [k EXCEPT ![curSetName] = call.other]]

\* lines 400-406: the .each callback for one checked zone box
ZoneBody(fs, k, id) ==
    LET curSetName == ZoneVar(id)
        curSet == k[curSetName]
        call == IF isEmpty(fs) THEN union(fs, SetArg(curSet))
                               ELSE intersection(fs, SetArg(curSet))
    IN  [finalSet |-> call.ret, kb |-> [k EXCEPT ![curSetName] = call.other]]

RECURSIVE DxLoop(_, _, _)
\* lines 450-465: st carries kb, finalSet and curRunningSet through the loop
DxLoop(q, cur_symptom, st) ==
    IF q = << >> THEN st
    ELSE
        LET curDxSpace == Head(q)
            curDxNoSpace == NoSpace(curDxSpace)
            curDxSet == st.kb[curDxNoSpace]
            overlapLocal == has(curDxSet, cur_symptom)
            call == intersection(curDxSet, SetArg(st.finalSet))
            overlapDDx == call.ret
        IN  DxLoop(Tail(q), cur_symptom,
                   [ kb |-> [st.kb EXCEPT ![curDxNoSpace] = call.self],
                     finalSet |-> call.other,
                     curRunningSet |->
                         IF overlapLocal = TRUE /\ isEmpty(overlapDDx) = FALSE
                         THEN add(st.curRunningSet, KeyArg(curDxSpace))
                         ELSE st.curRunningSet ])

SymptomBodyAugmentsFirst(fs, fdx, ns, k, cur_symptom) ==
    LET loop == DxLoop(keys(k.ddx_list), cur_symptom,
                       [kb |-> k, finalSet |-> add(fs, KeyArg(cur_symptom)),
                        curRunningSet |-> << >>])
        curRunningSet == loop.curRunningSet
    IN  [ noset |-> add(ns, KeyArg(cur_symptom)),
          kb |-> loop.kb,
          finalSet |-> loop.finalSet,
          finalDx |->
              IF equals(fdx, SetArg(curRunningSet)) = FALSE
              THEN union(fdx,
                         SetArg(difference(curRunningSet, SetArg(fdx)).ret)).ret
              ELSE fdx ]

\* lines 441-469: the .each callback for one checked symptom box
SymptomBody(fs, fdx, ns, k, cur_symptom) ==
    LET loop == DxLoop(keys(k.ddx_list), cur_symptom,
                       [kb |-> k, finalSet |-> fs, curRunningSet |-> << >>])
        curRunningSet == loop.curRunningSet
    IN  [ noset |-> add(ns, KeyArg(cur_symptom)),
          kb |-> loop.kb,
          finalSet |-> loop.finalSet,
          finalDx |->
              IF equals(fdx, SetArg(curRunningSet)) = FALSE
              THEN union(fdx,
                         SetArg(difference(curRunningSet, SetArg(fdx)).ret)).ret
              ELSE fdx ]

\* lines 503-509: the first candidate is top and second at once
FirstCandidate(r, item4, inter, testcount) ==
    [r EXCEPT !.topddxcount = testcount, !.topddx = item4, !.topSet = inter,
              !.seconddxcount = testcount, !.seconddx = item4,
              !.secondSet = inter]

NewTopDropsTies(r, item4, inter, testcount) ==
    [r EXCEPT !.seconddxcount = r.topddxcount, !.seconddx = r.topddx,
              !.secondSet = r.topSet, !.topddxcount = testcount,
              !.topddx = item4, !.topSet = inter,
              !.secondMultipleSet = clear(r.secondMultipleSet),
              !.topMultipleSet = clear(r.topMultipleSet)]

\* lines 510-520: a score above the top score
NewTop(r, item4, inter, testcount) ==
    LET cleared == clear(r.secondMultipleSet)
    IN  [r EXCEPT !.seconddxcount = r.topddxcount, !.seconddx = r.topddx,
                  !.secondSet = r.topSet, !.topddxcount = testcount,
                  !.topddx = item4, !.topSet = inter,
                  !.secondMultipleSet =
                      union(r.topMultipleSet, SetArg(cleared)).ret,
                  !.topMultipleSet = clear(r.topMultipleSet)]

TieForTopNewOnly(r, item4) ==
    [r EXCEPT !.topMultipleSet = add(r.topMultipleSet, KeyArg(item4))]

\* lines 521-524: a score equal to the top score
TieForTop(r, item4) ==
    [r EXCEPT !.topMultipleSet =
                  add(add(r.topMultipleSet, KeyArg(r.topddx)), KeyArg(item4))]

\* lines 525-530: a score above the second score
NewSecond(r, item4, inter, testcount) ==
    [r EXCEPT !.seconddxcount = testcount, !.seconddx = item4,
              !.secondSet = inter,
              !.secondMultipleSet = clear(r.secondMultipleSet)]

\* lines 531-534: a score equal to the second score
TieForSecond(r, item4) ==
    [r EXCEPT !.secondMultipleSet =
                  add(add(r.secondMultipleSet, KeyArg(r.seconddx)),
                      KeyArg(item4))]

\* lines 491-535: one iteration of the scan over finalDx.keys()
ScanBody(r, fs, k, item4) ==
    LET item4nospace == NoSpace(item4)
        item4set == k[item4nospace]
        call == intersection(item4set, SetArg(fs))
        inter == call.ret
        testcount == Len(keys(inter))
    IN  [ kb |-> [k EXCEPT ![item4nospace] = call.self],
          finalSet |-> call.other,
          rank |->
            IF r.topddxcount = 0 /\ r.seconddxcount = 0
                THEN FirstCandidate(r, item4, inter, testcount)
            ELSE IF testcount > r.topddxcount
                THEN NewTop(r, item4, inter, testcount)
            ELSE IF testcount = r.topddxcount THEN TieForTop(r, item4)
            ELSE IF testcount > r.seconddxcount
                THEN NewSecond(r, item4, inter, testcount)
            ELSE IF testcount = r.seconddxcount THEN TieForSecond(r, item4)
            ELSE r ]

RECURSIVE ScanAll(_, _, _, _)
\* lines 490-548: the whole scan over the candidates in the order q
ScanAll(r, fs, k, q) ==
    IF q = << >> THEN r
    ELSE ScanAll(ScanBody(r, fs, k, Head(q)).rank, fs, k, Tail(q))

\* lines 550-561
Area1Html(r) ==
    IF isEmpty(r.topMultipleSet) = FALSE
    THEN << Text("Multiple differentials likely! <br>") >>
             \o ListItems(keys(r.topMultipleSet))
    ELSE << Strong(r.topddx) >> \o ListItems(keys(r.topSet))

Area2HtmlNoDedup(r) ==
    IF isEmpty(r.secondMultipleSet) = FALSE
    THEN << Text("Also consider the following: <br>") >>
             \o ListItems(keys(r.secondMultipleSet))
    ELSE << Strong(r.seconddx) >> \o ListItems(keys(r.secondSet))

\* lines 563-576
Area2Html(r) ==
    IF has(r.topMultipleSet, r.seconddx) \/ r.topddx = r.seconddx
    THEN NoAdditional
    ELSE IF isEmpty(r.secondMultipleSet) = FALSE
    THEN << Text("Also consider the following: <br>") >>
             \o ListItems(keys(r.secondMultipleSet))
    ELSE << Strong(r.seconddx) >> \o ListItems(keys(r.secondSet))

InitHandler ==
    /\ checked = {}
    /\ pc = "idle"
    /\ zoneQueue = << >>
    /\ symQueue = << >>
    /\ candQueue = << >>
    /\ finalSet = << >>
    /\ finalDx = << >>
    /\ noset = << >>
    /\ rank = RankUnset
    /\ aLocal = << >>
    /\ aDdx = << >>
    /\ area1 = << >>
    /\ area2 = << >>
    /\ kb = KnowledgeBase

NoRet == [op |-> "", set |-> << >>, bool |-> FALSE]

Init ==
    /\ InitHandler
    /\ s = << >>
    /\ t = SetArg(<< >>)
    /\ ret = NoRet

\* lines 391-397 and 613-617: a click toggles box b and starts the handler;
\* with no box left checked the handler ends in the "Nothing checked" branch
Click(b) ==
    /\ pc = "idle"
    /\ checked' = IF b \in checked THEN checked \ {b} ELSE checked \cup {b}
    /\ finalSet' = NewSet(<< ArrayArg(<< >>) >>)
    /\ finalDx' = NewSet(<< ArrayArg(<< >>) >>)
    /\ noset' = << >>
    /\ rank' = RankUnset
    /\ symQueue' = << >>
    /\ candQueue' = << >>
    /\ IF AnyChecked(checked')
       THEN /\ pc' = "zones"
            /\ zoneQueue' \in Orderings(checked' \cap ZoneBoxes)
            /\ UNCHANGED << aLocal, aDdx >>
       ELSE /\ pc' = "idle"
            /\ zoneQueue' = << >>
            /\ aLocal' = NoLocalizations
            /\ aDdx' = << >>
    /\ UNCHANGED << area1, area2, kb >>
    /\ UNCHANGED setVars

\* lines 399-407
ZoneStep ==
    /\ pc = "zones"
    /\ zoneQueue # << >>
    /\ \E body \in { ZoneBody(finalSet, kb, Head(zoneQueue)) } :
           /\ finalSet' = body.finalSet
           /\ kb' = body.kb
    /\ zoneQueue' = Tail(zoneQueue)
    /\ UNCHANGED << checked, pc, symQueue, candQueue, finalDx, noset, rank,
                    aLocal, aDdx, area1, area2 >>
    /\ UNCHANGED setVars

\* lines 410-437 and 608-611; where the handler returns, its variables are
\* gone: they are left as a new invocation finds them
LocalStep ==
    /\ pc = "zones"
    /\ zoneQueue = << >>
    /\ aDdx' = << >>
    /\ noset' = NewSet(<< ArrayArg(<< >>) >>)
    /\ IF isEmpty(finalSet)
       THEN /\ aLocal' = NoLocalizations
            /\ pc' = "idle"
            /\ symQueue' = << >>
            /\ finalSet' = << >>
            /\ UNCHANGED << area1, area2 >>
       ELSE /\ aLocal' = ListItems(keys(finalSet))
            /\ IF SymptomChecked(checked)
               THEN /\ pc' = "symptoms"
                    /\ symQueue' \in Orderings(checked \cap SymptomBoxes)
                    /\ UNCHANGED << finalSet, area1, area2 >>
               ELSE /\ pc' = "idle"
                    /\ symQueue' = << >>
                    /\ finalSet' = << >>
                    /\ area1' = << >>
                    /\ area2' = << >>
    /\ UNCHANGED << checked, zoneQueue, candQueue, finalDx, rank, kb >>
    /\ UNCHANGED setVars

\* lines 440-475
SymptomStep ==
    /\ pc = "symptoms"
    /\ symQueue # << >>
    /\ \E body \in { SymptomBody(finalSet, finalDx, noset, kb, Head(symQueue)) } :
           /\ noset' = body.noset
           /\ kb' = body.kb
           /\ finalSet' = body.finalSet
           /\ finalDx' = body.finalDx
    /\ symQueue' = Tail(symQueue)
    /\ UNCHANGED << checked, pc, zoneQueue, candQueue, rank,
                    aLocal, aDdx, area1, area2 >>
    /\ UNCHANGED setVars

\* lines 476-490
AugmentStep ==
    /\ pc = "symptoms"
    /\ symQueue = << >>
    /\ rank' = RankUnset
    /\ \E call \in { union(finalSet, SetArg(noset)) } :
           /\ finalSet' = call.ret
           /\ noset' = call.other
    /\ candQueue' = keys(finalDx)
    /\ pc' = "scan"
    /\ UNCHANGED << checked, zoneQueue, symQueue, finalDx,
                    aLocal, aDdx, area1, area2, kb >>
    /\ UNCHANGED setVars

\* lines 490-548
ScanStep ==
    /\ pc = "scan"
    /\ candQueue # << >>
    /\ \E body \in { ScanBody(rank, finalSet, kb, Head(candQueue)) } :
           /\ rank' = body.rank
           /\ kb' = body.kb
           /\ finalSet' = body.finalSet
    /\ candQueue' = Tail(candQueue)
    /\ UNCHANGED << checked, pc, zoneQueue, symQueue, finalDx, noset,
                    aLocal, aDdx, area1, area2 >>
    /\ UNCHANGED setVars

\* lines 550-576
OutputStep ==
    /\ pc = "scan"
    /\ candQueue = << >>
    /\ area1' = Area1Html(rank)
    /\ area2' = Area2Html(rank)
    /\ pc' = "idle"
    /\ finalSet' = << >>
    /\ finalDx' = << >>
    /\ noset' = << >>
    /\ rank' = RankUnset
    /\ UNCHANGED << checked, zoneQueue, symQueue, candQueue, aLocal, aDdx, kb >>
    /\ UNCHANGED setVars

Next ==
    \/ \E b \in Boxes : Click(b)
    \/ ZoneStep
    \/ LocalStep
    \/ SymptomStep
    \/ AugmentStep
    \/ ScanStep
    \/ OutputStep

Spec == Init /\ [][Next]_vars

(***************************************************************************)
(* A Set object under its methods: the receiver s and the argument t are   *)
(* drawn from every Set and every argument form over a few elements, and   *)
(* each action is one method call s.method(t).                             *)
(***************************************************************************)
Elems ==
    { KnowledgeBase.all[i] : i \in 1..Min(NumElems, Len(KnowledgeBase.all)) }

SetValues == UNION { Orderings(S) : S \in SUBSET Elems }

ArrayValues == UNION { [1..n -> Elems] : n \in 0..MaxArrayLen }

ArgValues ==
    { SetArg(d) : d \in SetValues } \cup { ArrayArg(q) : q \in ArrayValues }
        \cup { KeyArg(e) : e \in Elems }

SetInit ==
    /\ InitHandler
    /\ s \in SetValues
    /\ t \in ArgValues
    /\ ret = NoRet

Returned(op, set, bool) == [op |-> op, set |-> set, bool |-> bool]

CallAdd ==
    /\ s' = add(s, t)
    /\ ret' = Returned("add", s', FALSE)
    /\ UNCHANGED t
    /\ UNCHANGED handlerVars

CallRemove ==
    /\ s' = remove(s, t)
    /\ ret' = Returned("remove", s', FALSE)
    /\ UNCHANGED t
    /\ UNCHANGED handlerVars

CallClear ==
    /\ s' = clear(s)
    /\ ret' = Returned("clear", s', FALSE)
    /\ UNCHANGED t
    /\ UNCHANGED handlerVars

CallHas ==
    /\ t.kind = "key"
    /\ ret' = Returned("has", << >>, has(s, t.key))
    /\ UNCHANGED << s, t >>
    /\ UNCHANGED handlerVars

CallIsEmpty ==
    /\ ret' = Returned("isEmpty", << >>, isEmpty(s))
    /\ UNCHANGED << s, t >>
    /\ UNCHANGED handlerVars

CallUnion ==
    /\ \E call \in { union(s, t) } :
           /\ s' = call.self
           /\ ret' = Returned("union", call.ret, FALSE)
    /\ UNCHANGED t
    /\ UNCHANGED handlerVars

CallIntersection ==
    /\ \E call \in { intersection(s, t) } :
           /\ s' = call.self
           /\ ret' = Returned("intersection", call.ret, FALSE)
    /\ UNCHANGED t
    /\ UNCHANGED handlerVars

CallDifference ==
    /\ \E call \in { difference(s, t) } :
           /\ s' = call.self
           /\ ret' = Returned("difference", call.ret, FALSE)
    /\ UNCHANGED t
    /\ UNCHANGED handlerVars

CallIsSubset ==
    /\ ret' = Returned("isSubset", << >>, isSubset(s, t))
    /\ UNCHANGED << s, t >>
    /\ UNCHANGED handlerVars

CallIsSuperset ==
    /\ ret' = Returned("isSuperset", << >>, isSuperset(s, t))
    /\ UNCHANGED << s, t >>
    /\ UNCHANGED handlerVars

CallEquals ==
    /\ ret' = Returned("equals", << >>, equals(s, t))
    /\ UNCHANGED << s, t >>
    /\ UNCHANGED handlerVars

SetNext ==
    \/ CallAdd
    \/ CallRemove
    \/ CallClear
    \/ CallHas
    \/ CallIsEmpty
    \/ CallUnion
    \/ CallIntersection
    \/ CallDifference
    \/ CallIsSubset
    \/ CallIsSuperset
    \/ CallEquals

SetSpec == SetInit /\ [][SetNext]_vars

(***************************************************************************)
(* A Set object under the methods that take a callback: the receiver s is  *)
(* any Set over a few elements and the argument t any callback, given by   *)
(* what it returns for each key of s.                                      *)
(***************************************************************************)
CallbackResults == { "true", "false", "undefined" }

CallbackInit ==
    /\ InitHandler
    /\ s \in SetValues
    /\ t \in { FnArg(f) : f \in [Range(s) -> CallbackResults] }
    /\ ret = NoRet

CallEachReturn ==
    /\ ret' = Returned("eachReturn", << >>, eachReturn(s, t.results))
    /\ UNCHANGED << s, t >>
    /\ UNCHANGED handlerVars

CallFilter ==
    /\ ret' = Returned("filter", filter(s, t.results), FALSE)
    /\ UNCHANGED << s, t >>
    /\ UNCHANGED handlerVars

CallSome ==
    /\ ret' = Returned("some", << >>, some(s, t.results))
    /\ UNCHANGED << s, t >>
    /\ UNCHANGED handlerVars

CallEvery ==
    /\ ret' = Returned("every", << >>, every(s, t.results))
    /\ UNCHANGED << s, t >>
    /\ UNCHANGED handlerVars

CallbackNext ==
    \/ CallEachReturn
    \/ CallFilter
    \/ CallSome
    \/ CallEvery

CallbackSpec == CallbackInit /\ [][CallbackNext]_vars

(***************************************************************************)
(* Properties.                                                             *)
(***************************************************************************)
Diagnoses == Range(KnowledgeBase.ddx_list)

\* the feature Set of diagnosis D as built at startup
Features(D) == Range(KnowledgeBase[NoSpace(D)])

\* the zone Set of zone box id as built at startup
ZoneKeys(id) == Range(KnowledgeBase[ZoneVar(id)])

CheckedZones == checked \cap ZoneBoxes

CheckedSymptoms == checked \cap SymptomBoxes

\* the <li> entries of an output region
Shown(html) == { html[i].str : i \in { j \in DOMAIN html : html[j].tag = "li" } }

\* the diagnoses an area names: its <strong> heading or its list of names
Named(html) ==
    IF html = << >> \/ html = NoAdditional THEN {}
    ELSE IF html[1].tag = "strong" THEN { html[1].str }
    ELSE Shown(html)

ZoneLoopDone == pc = "zones" /\ zoneQueue = << >>

SymptomLoopDone == pc = "symptoms" /\ symQueue = << >>

ScanDone == pc = "scan" /\ candQueue = << >>

\* overlap count of candidate D with the evidence Set
Score(D) == Cardinality(Features(D) \cap Range(finalSet))

Scores == { Score(D) : D \in Range(finalDx) }

MaxOf(S) == CHOOSE m \in S : \A n \in S : n <= m

WithScore(n) == { D \in Range(finalDx) : Score(D) = n }

\* C1: when the zone loop has visited every checked zone box (at least
\* one), finalSet holds exactly the structures that belong to the zone Set
\* of every checked zone.
C1_LocalizationIsIntersection ==
    (ZoneLoopDone /\ CheckedZones # {}) =>
        Range(finalSet) =
            { e \in UNION { ZoneKeys(z) : z \in CheckedZones } :
                \A z \in CheckedZones : e \in ZoneKeys(z) }

\* C2: when the scan has visited every candidate and the candidates have
\* at least two distinct scores, the second-place output names exactly the
\* candidates with the second-highest score (a single name comes with its
\* overlap Set), and "No additional differentials" is written only when no
\* candidate scores below the top score.
C2_SecondPlaceIsSecondHighest ==
    (ScanDone /\ finalDx # << >>) =>
        LET out == Area2Html(rank)
        IN  /\ out = NoAdditional => Cardinality(Scores) = 1
            /\ Cardinality(Scores) >= 2 =>
                /\ Named(out) = WithScore(MaxOf(Scores \ { MaxOf(Scores) }))
                /\ out[1].tag = "strong" =>
                       Shown(out) = Features(out[1].str) \cap Range(finalSet)

\* what C3 says of the scan variables r once every candidate is visited
TopIsMaximum(r) ==
    LET tops == WithScore(MaxOf(Scores))
    IN  /\ r.topddxcount = MaxOf(Scores)
        /\ r.topddx \in tops
        /\ IF Cardinality(tops) = 1
           THEN /\ isEmpty(r.topMultipleSet)
                /\ Range(r.topSet) = Features(r.topddx) \cap Range(finalSet)
                /\ Area1Html(r) = << Strong(r.topddx) >> \o ListItems(r.topSet)
           ELSE /\ Range(r.topMultipleSet) = tops
                /\ Named(Area1Html(r)) = tops

\* C3: when the scan has visited every candidate (at least one),
\* topddxcount is the maximum score; a single candidate with that score is
\* topddx, with topSet its overlap with the evidence Set and an empty
\* tied-for-top group; several candidates with that score are exactly the
\* tied-for-top group.  The same holds of the scan run over the candidates
\* in any other order (for up to MaxReordered candidates).
C3_TopIsMaximum ==
    (ScanDone /\ finalDx # << >>) =>
        /\ TopIsMaximum(rank)
        /\ Len(finalDx) <= MaxReordered =>
               \A q \in Orderings(Range(finalDx)) :
                   TopIsMaximum(ScanAll(RankUnset, finalSet, kb, q))

C3_Witness ==
    /\ ScanDone
    /\ Len(finalDx) >= 3
    /\ Cardinality(Scores) >= 2
    /\ Cardinality(WithScore(MaxOf(Scores))) >= 2
    /\ Range(rank.topMultipleSet) = WithScore(MaxOf(Scores))

\* C4: with exactly two candidates of equal score, the scan in either order
\* leaves both names in the tied-for-top group and the second-place output
\* is "No additional differentials".
C4_TwoWayTie ==
    (ScanDone /\ Len(finalDx) = 2 /\ Cardinality(Scores) = 1) =>
        /\ Range(rank.topMultipleSet) = Range(finalDx)
        /\ Area2Html(rank) = NoAdditional
        /\ \A q \in Orderings(Range(finalDx)) :
               LET r == ScanAll(RankUnset, finalSet, kb, q)
               IN  /\ Range(r.topMultipleSet) = Range(finalDx)
                   /\ Area2Html(r) = NoAdditional

C4_Witness ==
    /\ ScanDone
    /\ Len(finalDx) = 2
    /\ Cardinality(Scores) = 1
    /\ Range(rank.topMultipleSet) = Range(finalDx)
    /\ Area2Html(rank) = NoAdditional

\* C5: throughout the symptom loop finalSet is the localization shown in
\* #a-local, with no symptom id in it; when the loop has visited every
\* checked symptom box, finalDx holds exactly the diagnoses whose feature
\* Set has some checked symptom and meets that localization; the symptom
\* ids are in finalSet only once the scan has been entered.
C5_CandidatesAreUnionOverSymptoms ==
    /\ pc = "symptoms" =>
           /\ Range(finalSet) = Shown(aLocal)
           /\ Shown(aLocal) # {}
    /\ SymptomLoopDone =>
           Range(finalDx) =
               { D \in Diagnoses :
                   /\ \E sy \in CheckedSymptoms : sy \in Features(D)
                   /\ Features(D) \cap Shown(aLocal) # {} }
    /\ pc = "scan" => Range(finalSet) = Shown(aLocal) \cup CheckedSymptoms

C5_Witness ==
    /\ SymptomLoopDone
    /\ Cardinality(CheckedSymptoms) = 2
    /\ \A sy \in CheckedSymptoms :
           \E D \in Range(finalDx) : sy \notin Features(D)
    /\ \E D \in Diagnoses :
           /\ D \notin Range(finalDx)
           /\ \E sy \in CheckedSymptoms : sy \in Features(D)

\* C6: every knowledge-base Set holds, in every state, the keys it was built
\* with at startup, in the same order.
C6_KnowledgeBaseUnchanged == kb = KnowledgeBase

C6_Witness ==
    /\ ScanDone
    /\ Len(finalDx) >= 2
    /\ Cardinality(CheckedZones) >= 2
    /\ rank.secondMultipleSet # << >>
    /\ kb = KnowledgeBase

\* C7: candidate selection is entered exactly when the zone loop has ended
\* with a non-empty finalSet and a symptom box is checked, and the scan is
\* entered only from candidate selection; with an empty finalSet, or with no
\* box checked, #a-local becomes "No localizations found!" and the handler
\* returns; with a non-empty finalSet and no symptom box checked the handler
\* returns with the localization list written and #area1, #area2 emptied.
C7_RankingRunsIffLocalizedAndSymptom ==
    [][ /\ (pc' = "symptoms" /\ pc # "symptoms") =>
               (ZoneLoopDone /\ ~ isEmpty(finalSet) /\ CheckedSymptoms # {})
        /\ (ZoneLoopDone /\ ~ isEmpty(finalSet) /\ CheckedSymptoms # {}) =>
               (pc' = "symptoms" /\ symQueue' # << >>)
        /\ pc = "symptoms" => pc' \in { "symptoms", "scan" }
        /\ pc' = "scan" => pc \in { "symptoms", "scan" }
        /\ (ZoneLoopDone /\ isEmpty(finalSet)) =>
               (aLocal' = NoLocalizations /\ pc' = "idle")
        /\ (pc = "idle" /\ checked' = {}) =>
               (aLocal' = NoLocalizations /\ pc' = "idle")
        /\ (ZoneLoopDone /\ ~ isEmpty(finalSet) /\ CheckedSymptoms = {}) =>
               /\ pc' = "idle"
               /\ aLocal' = ListItems(keys(finalSet))
               /\ area1' = << >>
               /\ area2' = << >>
      ]_vars

C7_Witness ==
    /\ pc = "idle"
    /\ CheckedSymptoms # {}
    /\ Cardinality(CheckedZones) >= 2
    /\ aLocal = NoLocalizations
    /\ area1 # << >>

\* C8: when the zone loop has ended with one zone box checked, finalSet has
\* exactly the keys of that zone's Set, each once; with no zone box checked it
\* is empty.
C8_Bootstrap ==
    ZoneLoopDone =>
        /\ \A z \in ZoneBoxes :
               CheckedZones = { z } =>
                   /\ Range(finalSet) = ZoneKeys(z)
                   /\ Len(finalSet) = Cardinality(ZoneKeys(z))
        /\ CheckedZones = {} => finalSet = << >>

C8_Witness ==
    /\ ZoneLoopDone
    /\ Cardinality(CheckedZones) = 1
    /\ finalSet # << >>
    /\ \E z \in CheckedZones : Range(finalSet) = ZoneKeys(z)

\* C9: for the Sets A = s and B = the Set made of t: A.union(B) equals
\* B.union(A); A.intersection(B) equals B.intersection(A); A.difference(A)
\* is empty; A.union(A) equals A; A is a subset of A; and A equals
\* A.union(A.intersection(B)).union(A.difference(B)).
C9_SetAlgebra ==
    LET A == s
        B == makeSet(t)
    IN  /\ equals(union(A, SetArg(B)).ret, SetArg(union(B, SetArg(A)).ret))
        /\ equals(intersection(A, SetArg(B)).ret,
                  SetArg(intersection(B, SetArg(A)).ret))
        /\ isEmpty(difference(A, SetArg(A)).ret)
        /\ equals(union(A, SetArg(A)).ret, SetArg(A))
        /\ isSubset(A, SetArg(A))
        /\ equals(A, SetArg(union(union(A, SetArg(intersection(A, SetArg(B)).ret)).ret,
                                  SetArg(difference(A, SetArg(B)).ret)).ret))

C9_Witness ==
    /\ ret.op = "union"
    /\ ret.set = union(s, t).ret
    /\ union(s, t).ret # union(makeSet(t), SetArg(s)).ret
    /\ intersection(s, t).ret # << >>
    /\ intersection(s, t).ret # intersection(makeSet(t), SetArg(s)).ret
    /\ difference(s, t).ret # << >>

\* the keys an argument stands for: the Set's keys, the array's elements or
\* the single element
ArgKeys(arg) == IF arg.kind = "key" THEN { arg.key } ELSE Range(arg.items)

\* C10: s.equals(t) is a boolean for every argument form; it is true exactly
\* when s and t hold the same keys, and exactly when s.isSubset(t) and
\* s.isSuperset(t) are both true.
C10_EqualsIsSameKeys ==
    /\ equals(s, t) \in BOOLEAN
    /\ equals(s, t) <=> (Range(s) = ArgKeys(t))
    /\ equals(s, t) <=> (isSubset(s, t) /\ isSuperset(s, t))
    /\ ret.op = "equals" => (ret.bool <=> (Range(s) = ArgKeys(t)))

C10_Witness ==
    /\ ret.op = "equals"
    /\ ret.bool
    /\ t.kind = "array"
    /\ Len(s) >= 2
    /\ t.items # s

\* C11: every(fn) has returned true exactly when the callback returns true
\* for every element of the Set; a callback that returns anything else for
\* some element, undefined included, makes it return false.
C11_EveryIffAllTrue ==
    ret.op = "every" =>
        (ret.bool <=> \A k \in Range(s) : t.results[k] = "true")

\* C12: when the scan has visited every candidate, the names reported as
\* top and the names (or the "No additional differentials" marker) reported
\* as second are those the scan reports for every other order of the same
\* candidates (for up to MaxReordered candidates).
C12_RankingIsOrderIndependent ==
    (ScanDone /\ finalDx # << >> /\ Len(finalDx) <= MaxReordered) =>
        \A q \in Orderings(Range(finalDx)) :
            LET r == ScanAll(RankUnset, finalSet, kb, q)
            IN  /\ Named(Area1Html(r)) = Named(Area1Html(rank))
                /\ Named(Area2Html(r)) = Named(Area2Html(rank))
                /\ Area2Html(r) = NoAdditional <=>
                       Area2Html(rank) = NoAdditional

\* C13: a scan step whose candidate is not the first and scores above the
\* top score leaves that candidate as top with its overlap Set, the previous
\* top's name, score and overlap Set as second, the tied-for-top group empty
\* and the tied-for-second group with the keys the tied-for-top group had
\* before the step; the second place written from the variables as the step
\* leaves them names exactly the diagnoses of that group, or the previous top
\* alone when there was no group.
C13_HigherScoreDemotesTop ==
    [][ ( /\ pc = "scan"
          /\ candQueue # << >>
          /\ ~ (rank.topddxcount = 0 /\ rank.seconddxcount = 0)
          /\ Score(Head(candQueue)) > rank.topddxcount ) =>
        ( /\ rank'.topddx = Head(candQueue)
          /\ rank'.topddxcount = Score(Head(candQueue))
          /\ Range(rank'.topSet) =
                 Features(Head(candQueue)) \cap Range(finalSet)
          /\ rank'.seconddx = rank.topddx
          /\ rank'.seconddxcount = rank.topddxcount
          /\ rank'.secondSet = rank.topSet
          /\ isEmpty(rank'.topMultipleSet)
          /\ keys(rank'.secondMultipleSet) = keys(rank.topMultipleSet)
          /\ Named(Area2Html(rank')) =
                 IF isEmpty(rank.topMultipleSet) THEN { rank.topddx }
                 ELSE Range(rank.topMultipleSet) )
      ]_vars

\* the candidate scanned last is top and a tied-for-top group was demoted
C13_Witness ==
    /\ pc = "scan"
    /\ Len(candQueue) < Len(finalDx)
    /\ keys(finalDx)[Len(finalDx) - Len(candQueue)] = rank.topddx
    /\ Cardinality(Range(rank.secondMultipleSet)) >= 2
    /\ rank.seconddx \in Range(rank.secondMultipleSet)
    /\ isEmpty(rank.topMultipleSet)

\* C14: when the handler has returned from an invocation that skipped the
\* ranking, because nothing is checked or because the localization is empty
\* (#a-local reads "No localizations found!"), #area1 and #area2 show no
\* diagnosis of an earlier invocation: they are as a history without any
\* ranking leaves them, empty.
C14_NoStaleRanking ==
    (pc = "idle" /\ (checked = {} \/ aLocal = NoLocalizations)) =>
        (area1 = << >> /\ area2 = << >>)

====
